---- MODULE Spec2Model ----
(***************************************************************************)
(* A model of the tool-augmented conversation orchestrator of              *)
(* project2-backend: SciSciNetAgent (agent.py) over the dispatch table of   *)
(* tools.py.                                                                *)
(*                                                                          *)
(* Python values are records [ty, v]: ty is the Python type name and v the   *)
(* content as a sequence of strings.  Text is a sequence of tokens, so       *)
(* that concatenation is \o and a conversion such as json.dumps is a         *)
(* function from values to token sequences, not the identity.                *)
(*                                                                          *)
(* Spec is one call of chat against a reasoning service that may reply       *)
(* anything from Replies or fail, with tool functions whose bodies may do    *)
(* anything from BodyOutcomes.  chat is cut where it waits for something     *)
(* outside itself: the round-trip to the service and the call of a tool      *)
(* function.  SpecExec is one call of _execute_tool on its own.              *)
(* SpecExtract is one call of chat whose first reply is final and holds a     *)
(* text made of prose and fenced blocks.  SpecSchema is the schema            *)
(* derivation of _get_tools_for_api on one descriptor.  SpecApp is the        *)
(* /api/chat endpoint of app.py with its lazily constructed agent.  SpecTwo   *)
(* is two invocations of chat on one agent, one after the other or            *)
(* interleaved.  SpecSingleton is get_agent of app.py, statement by           *)
(* statement, called from the threads of the server.  SpecQuery is one call   *)
(* of query_papers_with_filters of tools.py on a small dataset.               *)
(***************************************************************************)
EXTENDS Integers, Sequences, FiniteSets, TLC

\* --------------------------------------------------------------- bounds

\* Cap on the number of requests one chat call sends to the reasoning
\* service (the loop of agent.py:114 has none).
MaxRounds == 3

\* Longest content list of a service reply.
MaxParts == 2

\* Most segments (prose, fenced blocks) in the text of a scripted final reply.
MaxBlocks == 2

\* Most parameters of a descriptor handed to the schema derivation.
MaxParams == 2

\* The most requests the /api/chat endpoint takes in a behaviour.
MaxRequests == 2

\* The most papers in the dataset file.
MaxPapers == 2

\* ------------------------------------------------------- python values

None == [ty |-> "NoneType", v |-> <<>>]

PyDict(items) == [ty |-> "dict", v |-> items]

\* The types json.dumps encodes (json.encoder); anything else makes it
\* raise TypeError("Object of type ... is not JSON serializable").
JsonTypes == {"dict", "list", "tuple", "str", "int", "float", "bool", "NoneType"}

\* The type of the first object json.dumps cannot encode in value, "" when
\* it encodes all of it: json.encoder walks into dicts, lists and tuples,
\* so a bytes cell of a record stops it like a value of a foreign type.
RejectedType(value) ==
    IF value.ty \notin JsonTypes THEN value.ty
    ELSE IF value.ty \in {"dict", "list", "tuple"}
            /\ \E i \in DOMAIN value.v : value.v[i] = "{paperid:b'W1',year:2020}"
         THEN "bytes"
    ELSE ""

JsonSerializable(value) == RejectedType(value) = ""

\* json.dumps(value) for a serializable value: the JSON text, as tokens.
\* A tuple is written as a JSON array, like a list.
JsonDumps(value) ==
    CASE value.ty = "dict" -> <<"{">> \o value.v \o <<"}">>
      [] value.ty \in {"list", "tuple"} -> <<"[">> \o value.v \o <<"]">>
      [] value.ty = "NoneType" -> <<"null">>
      [] OTHER -> value.v

\* ---------------------------------------------------------- tools.py

\* tools.py:208-215, the keys of the dispatch table.
TOOLS ==
    {"query_papers_by_year", "query_top_authors", "query_citation_stats",
     "query_papers_with_filters", "query_collaboration_stats", "query_yearly_trend"}

\* The keyword parameters each tool function accepts (its def line).
Signature(name) ==
    CASE name = "query_papers_by_year" -> {"start_year", "end_year"}
      [] name = "query_top_authors" -> {"top_n", "metric"}
      [] name = "query_citation_stats" -> {}
      [] name = "query_papers_with_filters" -> {"year", "min_citations", "has_patents", "limit"}
      [] name = "query_collaboration_stats" -> {}
      [] name = "query_yearly_trend" -> {"metric"}

\* An argument map is a sequence of <<keyword, value>> pairs.
ArgKeys(args) == {args[i][1] : i \in 1..Len(args)}

\* The first keyword of args the function does not accept, if any.
RECURSIVE FirstUnexpected(_, _)
FirstUnexpected(name, args) ==
    IF args = <<>> THEN <<>>
    ELSE IF Head(args)[1] \notin Signature(name) THEN <<Head(args)[1]>>
    ELSE FirstUnexpected(name, Tail(args))

\* Outcomes of a Python call: a returned value or a raised Exception
\* (value.ty its class, value.v its message, str(e)).
Returned(value) == [kind |-> "return", value |-> value]

Raised(class, msg) == [kind |-> "raise", value |-> [ty |-> class, v |-> msg]]

\* TOOLS[name](**args): binding a keyword the function does not declare
\* raises TypeError before the body runs; otherwise the outcome is the
\* body's, which depends on the dataset files the function reads.
CallTool(name, args, body) ==
    IF FirstUnexpected(name, args) # <<>>
    THEN Raised("TypeError",
                <<name, "() got an unexpected keyword argument '">>
                \o FirstUnexpected(name, args) \o <<"'">>)
    ELSE body

\* Whether the call reaches the body of the function.
BodyRuns(name, args) == name \in TOOLS /\ FirstUnexpected(name, args) = <<>>

\* tools.py:161-205, TOOL_DESCRIPTIONS in table order.  A parameter is
\* [name, type, description, optional, has_default]: optional is
\* param_info.get(optional, False) and has_default is (default in
\* param_info).  Type names are character sequences.
Param(name, type, description, optional, has_default) ==
    [name |-> name, type |-> type, description |-> description,
     optional |-> optional, has_default |-> has_default]

T_int == <<"i", "n", "t">>

T_str == <<"s", "t", "r">>

T_bool == <<"b", "o", "o", "l">>

T_float == <<"f", "l", "o", "a", "t">>

T_interval == <<"i", "n", "t", "e", "r", "v", "a", "l">>

T_integer == <<"i", "n", "t", "e", "g", "e", "r">>

T_string == <<"s", "t", "r", "i", "n", "g">>

T_boolean == <<"b", "o", "o", "l", "e", "a", "n">>

TOOL_DESCRIPTIONS ==
    << [name |-> "query_papers_by_year", description |-> "papers per year",
        parameters |-> << Param("start_year", T_int, "first year", FALSE, TRUE),
                          Param("end_year", T_int, "last year", FALSE, TRUE) >>],
       [name |-> "query_top_authors", description |-> "top authors",
        parameters |-> << Param("top_n", T_int, "how many", FALSE, TRUE),
                          Param("metric", T_str, "ranking metric", FALSE, TRUE) >>],
       [name |-> "query_citation_stats", description |-> "citation statistics",
        parameters |-> << >>],
       [name |-> "query_papers_with_filters", description |-> "filter papers",
        parameters |-> << Param("year", T_int, "year filter", TRUE, FALSE),
                          Param("min_citations", T_int, "lowest citation count", TRUE, FALSE),
                          Param("has_patents", T_bool, "cited by patents", TRUE, FALSE),
                          Param("limit", T_int, "result size limit", FALSE, TRUE) >>],
       [name |-> "query_collaboration_stats", description |-> "collaboration statistics",
        parameters |-> << >>],
       [name |-> "query_yearly_trend", description |-> "yearly trend",
        parameters |-> << Param("metric", T_str, "trend metric", FALSE, TRUE) >>] >>

\* tools.py:98-118, query_papers_with_filters.  Numbers and booleans are
\* [ty, v] with v the number or the boolean; an argument left out is None.
PyInt(n) == [ty |-> "int", v |-> n]

PyBool(b) == [ty |-> "bool", v |-> b]

\* bool(value) for None, a number and a boolean: the tests of lines 109,
\* 111 and 113.
IsTrue(value) ==
    CASE value.ty = "NoneType" -> FALSE
      [] value.ty = "int" -> value.v # 0
      [] OTHER -> value.v

\* One row of the dataset.
Paper(paperid, year, cited_by_count, patent_count) ==
    [paperid |-> paperid, year |-> year, cited_by_count |-> cited_by_count,
     patent_count |-> patent_count]

\* tools.py:109-114, the rows the three filters keep, in the order of the
\* file.
Filtered(df, year, min_citations, has_patents) ==
    LET by_year == IF IsTrue(year)
                   THEN SelectSeq(df, LAMBDA row : row.year = year.v) ELSE df
        by_citations == IF IsTrue(min_citations)
                        THEN SelectSeq(by_year, LAMBDA row : row.cited_by_count >= min_citations.v)
                        ELSE by_year
    IN IF IsTrue(has_patents)
       THEN SelectSeq(by_citations, LAMBDA row : row.patent_count > 0)
       ELSE by_citations

\* tools.py:116, sort_values('cited_by_count', ascending=False): the
\* orders the sort may give, rows with equal counts in any order.
SortedByCitations(df) ==
    { [i \in 1..Len(df) |-> df[order[i]]] : order \in
        { perm \in Permutations(1..Len(df)) :
            \A i \in 1..(Len(df) - 1) :
                df[perm[i]].cited_by_count >= df[perm[i + 1]].cited_by_count } }

\* tools.py:116, head(n): the first n rows, or all but the last -n.
DfHead(df, n) ==
    IF n >= 0 THEN SubSeq(df, 1, IF n < Len(df) THEN n ELSE Len(df))
    ELSE SubSeq(df, 1, IF Len(df) + n > 0 THEN Len(df) + n ELSE 0)

\* tools.py:98-118: the lists of records a call may return.
QueryPapersWithFilters(df, year, min_citations, has_patents, limit) ==
    { DfHead(sorted, limit) :
        sorted \in SortedByCitations(Filtered(df, year, min_citations, has_patents)) }

NoArgs == [year |-> None, min_citations |-> None, has_patents |-> None, limit |-> 20]

NotQueried == [called |-> FALSE, records |-> <<>>]

\* ------------------------------------------ agent.py: _get_tools_for_api

\* Whether old occurs in s at position i.
OccursAt(s, old, i) ==
    /\ i + Len(old) - 1 <= Len(s)
    /\ SubSeq(s, i, i + Len(old) - 1) = old

\* str.replace(old, new): every non-overlapping occurrence of old, found
\* left to right, is replaced, wherever in the string it stands.
RECURSIVE ReplaceFrom(_, _, _, _)
ReplaceFrom(s, old, new, i) ==
    IF i > Len(s) THEN <<>>
    ELSE IF OccursAt(s, old, i)
         THEN new \o ReplaceFrom(s, old, new, i + Len(old))
         ELSE <<s[i]>> \o ReplaceFrom(s, old, new, i + 1)

Replace(s, old, new) == ReplaceFrom(s, old, new, 1)

\* agent.py:64, the chain of three replacements.
NormalizeType(type) ==
    Replace(Replace(Replace(type, T_int, <<"i", "n", "t", "e", "g", "e", "r">>),
                    T_str, <<"s", "t", "r", "i", "n", "g">>),
            T_bool, <<"b", "o", "o", "l", "e", "a", "n">>)

\* agent.py:63-66, one property of the schema.
Property(param_info) ==
    [name |-> param_info.name,
     type |-> NormalizeType(param_info.type),
     description |-> param_info.description]

\* Variant: a default does not take a parameter off the required list.
IsRequiredIgnoringDefault(param_info) == ~param_info.optional

\* agent.py:69-71.
IsRequired(param_info) == ~param_info.optional /\ ~param_info.has_default

\* agent.py:62-71, the required list in parameter order.
RECURSIVE RequiredOf(_)
RequiredOf(parameters) ==
    IF parameters = <<>> THEN <<>>
    ELSE (IF IsRequired(Head(parameters)) THEN <<Head(parameters).name>> ELSE <<>>)
         \o RequiredOf(Tail(parameters))

\* agent.py:52-71, the schema of one descriptor.
ToolSchema(info) ==
    [name |-> info.name,
     description |-> info.description,
     input_schema |->
        [type |-> "object",
         properties |-> [i \in 1..Len(info.parameters) |-> Property(info.parameters[i])],
         required |-> RequiredOf(info.parameters)]]

\* Variant: the normalized type names are written back into the descriptor.
DescriptorAfterNormalized(info) ==
    [info EXCEPT !.parameters =
        [i \in 1..Len(info.parameters) |->
            [info.parameters[i] EXCEPT !.type = NormalizeType(info.parameters[i].type)]]]

\* agent.py:51-73, the descriptor after its schema was derived: info and
\* param_info are read, never assigned to.
DescriptorAfter(info) == info

\* agent.py:48-75.
GetToolsForApi == [i \in 1..Len(TOOL_DESCRIPTIONS) |-> ToolSchema(TOOL_DESCRIPTIONS[i])]

\* ---------------------------------------------- agent.py: _execute_tool

ErrorResult(msg) == PyDict(<<"error">> \o msg)

\* What a call of _execute_tool did: its outcome, and whether it called
\* the function TOOLS[name].
Executed(out, called) == [kind |-> out.kind, value |-> out.value, called |-> called]

\* Variant: the table is indexed without the membership test of line 79.
ExecuteToolNoLookup(name, args, body) ==
    IF name \notin TOOLS
    THEN Executed(Raised("KeyError", <<name>>), FALSE)
    ELSE LET out == CallTool(name, args, body)
         IN IF out.kind = "raise"
            THEN Executed(Returned(ErrorResult(out.value.v)), TRUE)
            ELSE Executed(out, TRUE)

\* Variant: the error-result carries the class of the fault, not its message.
ExecuteToolClassName(name, args, body) ==
    IF name \notin TOOLS
    THEN Executed(Returned(ErrorResult(<<"Unknown tool: ", name>>)), FALSE)
    ELSE LET out == CallTool(name, args, body)
         IN IF out.kind = "raise"
            THEN Executed(Returned(ErrorResult(<<out.value.ty>>)), TRUE)
            ELSE Executed(out, TRUE)

\* Variant: the value the function returns is wrapped before it is returned.
ExecuteToolWrapped(name, args, body) ==
    IF name \notin TOOLS
    THEN Executed(Returned(ErrorResult(<<"Unknown tool: ", name>>)), FALSE)
    ELSE LET out == CallTool(name, args, body)
         IN IF out.kind = "raise"
            THEN Executed(Returned(ErrorResult(out.value.v)), TRUE)
            ELSE Executed(Returned(PyDict(<<"result">> \o out.value.v)), TRUE)

\* agent.py:77-86.  body is the outcome of the tool function's body, used
\* only if the body runs.  A fault is an instance of Exception, which
\* line 85 catches.
ExecuteTool(name, args, body) ==
    IF name \notin TOOLS
    THEN Executed(Returned(ErrorResult(<<"Unknown tool: ", name>>)), FALSE)
    ELSE LET out == CallTool(name, args, body)
         IN IF out.kind = "raise"
            THEN Executed(Returned(ErrorResult(out.value.v)), TRUE)
            ELSE Executed(out, TRUE)

\* ------------------------------------- agent.py: chat, the final answer

\* Content blocks of a service reply: a text block has a text attribute,
\* a tool_use block has id, name and input.
TextBlock(text) ==
    [type |-> "text", text |-> text, id |-> "", name |-> "", input |-> <<>>]

ToolUseBlock(id, name, input) ==
    [type |-> "tool_use", text |-> <<>>, id |-> id, name |-> name, input |-> input]

\* Variant: the text blocks are joined with a line break.
RECURSIVE TextResponseJoined(_)
TextResponseJoined(content) ==
    IF content = <<>> THEN <<>>
    ELSE (IF Head(content).type = "text" THEN Head(content).text \o <<"\n">> ELSE <<>>)
         \o TextResponseJoined(Tail(content))

\* agent.py:146-149, the text of every block that has one, concatenated.
RECURSIVE TextResponse(_)
TextResponse(content) ==
    IF content = <<>> THEN <<>>
    ELSE (IF Head(content).type = "text" THEN Head(content).text ELSE <<>>)
         \o TextResponse(Tail(content))

\* Tokens of a text: the fence (three backquotes, written <fence>), a
\* word that follows it, white space, a JSON text, prose.
Fence == "<fence>"

Whitespace == {"\n", " "}

\* agent.py:155, the two alternatives of (?:vega-lite|json).
Labels == {"vega-lite", "json"}

\* The pattern asks for the characters of a label right after the fence,
\* not for a whole word: a word that begins with a label matches too, and
\* what follows the label in it is the start of the captured group.
\* jsonl is the one such word of the model.
BeginsWithLabel(word) == word \in Labels \/ word = "jsonl"

AfterLabel(word) == IF word = "jsonl" THEN <<"l">> ELSE <<>>

\* The first position >= i of text holding tok, or 0.
RECURSIVE IndexFrom(_, _, _)
IndexFrom(text, tok, i) ==
    IF i > Len(text) THEN 0
    ELSE IF text[i] = tok THEN i
    ELSE IndexFrom(text, tok, i + 1)

\* The first position >= i of text that holds no white space.
RECURSIVE SkipSpace(_, _)
SkipSpace(text, i) ==
    IF i <= Len(text) /\ text[i] \in Whitespace THEN SkipSpace(text, i + 1) ELSE i

\* Variant: the pattern takes a fence followed by any word.
RECURSIVE FindAllFromAnyTag(_, _)
FindAllFromAnyTag(text, i) ==
    IF i > Len(text) THEN <<>>
    ELSE IF text[i] = Fence /\ i + 1 <= Len(text) /\ text[i + 1] \notin Whitespace \cup {Fence}
              /\ IndexFrom(text, Fence, i + 2) # 0
         THEN LET from == SkipSpace(text, i + 2)
                  to == IndexFrom(text, Fence, from)
              IN <<SubSeq(text, from, to - 1)>> \o FindAllFromAnyTag(text, to + 1)
         ELSE FindAllFromAnyTag(text, i + 1)

\* agent.py:155-156, re.findall(vega_pattern, text) from position i: a
\* fence directly followed by a label, white space, then the shortest
\* run up to the next fence; matches do not overlap.  White space is
\* skipped only where it directly follows the label.
RECURSIVE FindAllFrom(_, _)
FindAllFrom(text, i) ==
    IF i > Len(text) THEN <<>>
    ELSE IF text[i] = Fence /\ i + 1 <= Len(text) /\ BeginsWithLabel(text[i + 1])
              /\ IndexFrom(text, Fence, i + 2) # 0
         THEN LET rest == AfterLabel(text[i + 1])
                  from == IF rest = <<>> THEN SkipSpace(text, i + 2) ELSE i + 2
                  to == IndexFrom(text, Fence, from)
              IN <<rest \o SubSeq(text, from, to - 1)>> \o FindAllFrom(text, to + 1)
         ELSE FindAllFrom(text, i + 1)

FindAll(text) == FindAllFrom(text, 1)

\* str.strip().
RECURSIVE StripRight(_)
StripRight(text) ==
    IF text # <<>> /\ text[Len(text)] \in Whitespace
    THEN StripRight(SubSeq(text, 1, Len(text) - 1)) ELSE text

Strip(text) == StripRight(SubSeq(text, SkipSpace(text, 1), Len(text)))

\* A parsed JSON value is [ty, has, schema, src]: ty its Python type, has
\* the strings x for which (x in value) is true (keys of a dict, items of
\* a list, substrings of a str), schema the value under the key $schema of a
\* dict that has one, src the JSON text it was parsed from.
Parsed(ty, has, schema, src) == [ty |-> ty, has |-> has, schema |-> schema, src |-> src]

\* The value under $schema: [ty, has].
SchemaValue(ty, has) == [ty |-> ty, has |-> has]

DocChartB == "{data,mark}"

DocChartA == "{$schema:vega-lite}"

DocRows == "{rows}"

DocNumber == "5"

DocLayer == "{data,layer}"

DocDataOnly == "{data}"

DocOtherSchema == "{$schema:plotly,data,mark}"

DocSchemaNumber == "{$schema:5}"

DocList == "[data,mark]"

DocChartSchemaNumber == "{$schema:5,data,mark}"

\* A text json.loads rejects.
DocMalformed == "{data:"

\* The JSON texts of the model and what json.loads makes of them.
JsonDocs ==
    { Parsed("dict", {"data", "mark"}, SchemaValue("str", {}), DocChartB),
      Parsed("dict", {"$schema"}, SchemaValue("str", {"vega"}), DocChartA),
      Parsed("dict", {"rows"}, SchemaValue("str", {}), DocRows),
      Parsed("int", {}, SchemaValue("str", {}), DocNumber),
      Parsed("dict", {"data", "layer"}, SchemaValue("str", {}), DocLayer),
      Parsed("dict", {"data"}, SchemaValue("str", {}), DocDataOnly),
      Parsed("dict", {"$schema", "data", "mark"}, SchemaValue("str", {"plotly"}), DocOtherSchema),
      Parsed("dict", {"$schema"}, SchemaValue("int", {}), DocSchemaNumber),
      Parsed("dict", {"$schema", "data", "mark"}, SchemaValue("int", {}), DocChartSchemaNumber),
      Parsed("list", {"data", "mark"}, SchemaValue("str", {}), DocList) }

\* json.loads(text): the value of a JSON text, JSONDecodeError otherwise.
JsonLoads(text) ==
    IF Len(text) = 1 /\ \E d \in JsonDocs : d.src = text[1]
    THEN Returned(CHOOSE d \in JsonDocs : d.src = text[1])
    ELSE Raised("JSONDecodeError", <<"Expecting value">>)

\* Types whose values support (x in value).
Containers == {"dict", "list", "tuple", "str"}

\* agent.py:162-168 on one parsed value: "accept", "reject", or the class
\* of the exception an operation raises (none of them a JSONDecodeError).
Acceptance(spec) ==
    IF spec.ty \notin Containers THEN "TypeError"
    ELSE IF "$schema" \in spec.has /\ spec.ty # "dict" THEN "AttributeError"
    ELSE IF "$schema" \in spec.has /\ spec.schema.ty \notin Containers THEN "TypeError"
    ELSE IF "$schema" \in spec.has /\ "vega" \in spec.schema.has THEN "accept"
    ELSE IF "data" \in spec.has /\ ("mark" \in spec.has \/ "layer" \in spec.has) THEN "accept"
    ELSE "reject"

\* The message of the exception agent.py:162 raises on a parsed value: the
\* TypeError of (x in value) on a value that is no container, the
\* AttributeError of spec.get on a list or a str.
EscapeMessage(spec) ==
    IF spec.ty \notin Containers THEN <<"argument of type '", spec.ty, "' is not iterable">>
    ELSE IF spec.ty # "dict" THEN <<"'", spec.ty, "' object has no attribute 'get'">>
    ELSE <<"argument of type '", spec.schema.ty, "' is not iterable">>

\* agent.py:152-170, the loop over the matches: the first accepted value,
\* None when there is none, or the exception that escapes the loop.
RECURSIVE ExtractFrom(_)
ExtractFrom(matches) ==
    IF matches = <<>> THEN Returned(None)
    ELSE LET loaded == JsonLoads(Strip(Head(matches)))
         IN IF loaded.kind = "raise" THEN ExtractFrom(Tail(matches))
            ELSE IF Acceptance(loaded.value) = "accept" THEN loaded
            ELSE IF Acceptance(loaded.value) = "reject" THEN ExtractFrom(Tail(matches))
            ELSE Raised(Acceptance(loaded.value), EscapeMessage(loaded.value))

ExtractVegaLite(text) == ExtractFrom(FindAll(text))

\* --------------------------------------------------- agent.py: chat

\* agent.py:24-46, the system prompt, and agent.py:21, the model.
SystemPrompt == "You are a data analysis assistant for UMD Computer Science research data"

Model == "claude-sonnet-4-20250514"

\* Variant: only the first request of a call declares the tools.
RequestToolsOnce(schemas, history) ==
    [model |-> Model, max_tokens |-> 4096, system |-> SystemPrompt,
     tools |-> IF Len(history) = 1 THEN schemas ELSE <<>>, messages |-> history]

\* agent.py:105-111 and 137-143, the request of one round-trip.
Request(tools, messages) ==
    [model |-> Model, max_tokens |-> 4096, system |-> SystemPrompt, tools |-> tools,
     messages |-> messages]

Message(role, content) == [role |-> role, content |-> content]

\* Variant: the system prompt is put in front of the question, as a message.
InitialMessagesWithPrompt(question) ==
    <<Message("user", SystemPrompt), Message("user", question)>>

\* agent.py:99, the history chat starts from.
InitialMessages(question) == <<Message("user", question)>>

\* Variant: the loop goes on whenever the reply holds a tool_use block.
LoopContinuesOnParts(reply) ==
    \E i \in 1..Len(reply.content) : reply.content[i].type = "tool_use"

\* agent.py:114, the loop condition.
LoopContinues(response) == response.stop_reason = "tool_use"

\* Variant: only the first tool_use block of the reply is taken.
ToolUsesFirstOnly(content) ==
    LET found == SelectSeq(content, LAMBDA block : block.type = "tool_use")
    IN IF found = <<>> THEN <<>> ELSE <<found[1]>>

\* Variant: the tool_use blocks are taken last to first.
RECURSIVE ToolUsesReversed(_)
ToolUsesReversed(content) ==
    IF content = <<>> THEN <<>>
    ELSE ToolUsesReversed(Tail(content))
         \o (IF Head(content).type = "tool_use" THEN <<Head(content)>> ELSE <<>>)

\* agent.py:116, the tool_use blocks of a reply, in order.
RECURSIVE ToolUses(_)
ToolUses(content) ==
    IF content = <<>> THEN <<>>
    ELSE (IF Head(content).type = "tool_use" THEN <<Head(content)>> ELSE <<>>)
         \o ToolUses(Tail(content))

\* Variant: the result of a failed invocation is not kept.
ToolCallRecordDropsErrors(tool_use, result) ==
    [tool |-> tool_use.name, args |-> tool_use.input,
     result |-> IF result.ty = "dict" /\ result.v # <<>> /\ result.v[1] = "error"
                THEN None ELSE result]

\* agent.py:122-126, the record of one invocation.
ToolCallRecord(tool_use, result) ==
    [tool |-> tool_use.name, args |-> tool_use.input, result |-> result]

\* Variant: the result is tagged with the name of the tool, not the call id.
ToolResultBlockByName(tool_use, result) ==
    [type |-> "tool_result", tool_use_id |-> tool_use.name, content |-> JsonDumps(result)]

\* agent.py:127-131, the tool_result block of one invocation.
ToolResultBlock(tool_use, result) ==
    [type |-> "tool_result", tool_use_id |-> tool_use.id, content |-> JsonDumps(result)]

\* Variant: an error-result is not appended, so that the loop runs the
\* same tool_use again.
ResultsAfterRetryOnError(results, tool_use, result) ==
    IF result.ty = "dict" /\ result.v # <<>> /\ result.v[1] = "error" THEN results
    ELSE Append(results, ToolResultBlock(tool_use, result))

\* agent.py:127-131, the result list after one invocation: the for loop
\* then moves to the next tool_use.
ResultsAfter(tool_results, tool_use, result) ==
    Append(tool_results, ToolResultBlock(tool_use, result))

\* Variant: the reply itself is left out of the history.
ResumeMessagesNoReply(history, reply, results) ==
    history \o <<Message("user", results)>>

\* agent.py:134-135, the history after one round of tools.
ResumeMessages(messages, response, tool_results) ==
    messages \o <<Message("assistant", response.content), Message("user", tool_results)>>

\* agent.py:172-176, the returned dict.
ChatResult(text, vega_lite, data) == [text |-> text, vega_lite |-> vega_lite, data |-> data]

\* ------------------------------------------- agent.py: __init__, app.py

Str(text) == [ty |-> "str", v |-> text]

\* bool(value) for None and for a string.
Truthy(value) == value.ty # "NoneType" /\ value.v # <<>>

\* a or b.
Or(a, b) == IF Truthy(a) THEN a ELSE b

\* Variant: the constructor does not test the key.
NewAgentUnchecked(api_key, environ) ==
    Returned([api_key |-> Or(api_key, environ), model |-> Model,
              system_prompt |-> SystemPrompt])

\* agent.py:15-20, SciSciNetAgent(api_key) where os.getenv gives environ:
\* the agent, or the ValueError of line 18.
NewAgent(api_key, environ) ==
    LET key == Or(api_key, environ)
    IN IF ~Truthy(key)
       THEN Raised("ValueError", <<"ANTHROPIC_API_KEY not found">>)
       ELSE Returned([api_key |-> key, model |-> Model, system_prompt |-> SystemPrompt])

\* app.py:26-33, get_agent(): what it returns or raises, and the global
\* _agent after it.
GetAgent(_agent, environ) ==
    IF _agent = None
    THEN IF ~Truthy(environ)
         THEN [out |-> Raised("ValueError", <<"ANTHROPIC_API_KEY not set">>), agent |-> _agent]
         ELSE LET made == NewAgent(environ, environ)
              IN [out |-> made, agent |-> IF made.kind = "raise" THEN _agent ELSE made.value]
    ELSE [out |-> Returned(_agent), agent |-> _agent]

\* The classes an except ValueError clause catches.
ValueErrors == {"ValueError", "JSONDecodeError", "UnicodeDecodeError"}

\* jsonify(payload), status.
HttpResponse(status, payload) == [status |-> status, json |-> payload]

\* Variant: one handler answers every exception alike.
ErrorResponseGeneric(exception) ==
    HttpResponse(500, PyDict(<<"error", "Internal server error">>))

\* app.py:81-84, the two except clauses.
ErrorResponse(exception) ==
    IF exception.ty \in ValueErrors
    THEN HttpResponse(500, PyDict(<<"error">> \o exception.v))
    ELSE HttpResponse(500, PyDict(<<"error", "Agent error: ">> \o exception.v))

\* The body of a request: a JSON object with or without a 'message', the
\* JSON null, or a text that is not JSON.
Missing == [ty |-> "missing", v |-> <<>>]

JsonObject(message) == [json |-> "object", message |-> message]

JsonNull == [json |-> "null", message |-> Missing]

NotJson == [json |-> "malformed", message |-> Missing]

\* app.py:70, request.get_json(): the parsed body, None for null, and
\* BadRequest when the body does not parse.
GetJson(body) ==
    CASE body.json = "object" -> Returned(body)
      [] body.json = "null" -> Returned(None)
      [] OTHER -> Raised("BadRequest", <<"400 Bad Request: Failed to decode JSON object">>)

\* app.py:71, data.get('message', '').
GetMessage(data) ==
    IF data = None
    THEN Raised("AttributeError", <<"'NoneType' object has no attribute 'get'">>)
    ELSE Returned(IF data.message = Missing THEN Str(<<>>) ELSE data.message)

NoHttpResponse == HttpResponse(0, None)

\* app.py:69-77 up to the call of agent.chat: the response if the handler
\* is done before it, the global _agent afterwards, and whether chat is
\* called.
BeforeChat(body, _agent, environ) ==
    LET data == GetJson(body)
        message == GetMessage(data.value)
        got == GetAgent(_agent, environ)
    IN CASE data.kind = "raise" ->
              [response |-> ErrorResponse(data.value), agent |-> _agent, chat |-> FALSE]
         [] data.kind # "raise" /\ message.kind = "raise" ->
              [response |-> ErrorResponse(message.value), agent |-> _agent, chat |-> FALSE]
         [] data.kind # "raise" /\ message.kind # "raise" /\ ~Truthy(message.value) ->
              [response |-> HttpResponse(400, PyDict(<<"error", "Message is required">>)),
               agent |-> _agent, chat |-> FALSE]
         [] OTHER ->
              IF got.out.kind = "raise"
              THEN [response |-> ErrorResponse(got.out.value), agent |-> got.agent, chat |-> FALSE]
              ELSE [response |-> NoHttpResponse, agent |-> got.agent, chat |-> TRUE]

ApiKey == Str(<<"sk-ant-key">>)

NotConstructed == [api_key |-> None, kind |-> "", value |-> None]

NoRequest == [json |-> "", message |-> Missing]

\* ------------------------------------------------------------ inputs

Questions == {"How many papers were published in 2020?"}

TxtPlain == TextBlock(<<"Papers rose.">>)

TxtChart == TextBlock(<<"Chart:", Fence, "vega-lite", "\n", DocChartB, "\n", Fence>>)

TxtNumber == TextBlock(<<Fence, "json", "\n", DocNumber, Fence>>)

UseStats == ToolUseBlock("toolu_1", "query_citation_stats", <<>>)

UseTrend == ToolUseBlock("toolu_2", "query_yearly_trend", << <<"metric", "citations">> >>)

UseUnknown == ToolUseBlock("toolu_2", "query_patents", <<>>)

UsePapers == ToolUseBlock("toolu_4", "query_papers_with_filters", << <<"limit", "5">> >>)

\* Reply contents are the first k blocks, k <= MaxParts, of a script
\* repeated as often as needed.
Scripts ==
    { <<UseUnknown, UseStats>>, <<TxtChart, TxtPlain>>, <<TxtNumber, UsePapers>> }

Prefix(script, k) == [i \in 1..k |-> script[((i - 1) % Len(script)) + 1]]

ReplyContents == {Prefix(script, k) : script \in Scripts, k \in 0..MaxParts}

StopReasons == {"tool_use", "end_turn", "max_tokens"}

Replies == [stop_reason : StopReasons, content : ReplyContents]

\* What the body of a tool function may do: return its value, or raise
\* the FileNotFoundError of pd.read_parquet when a dataset file it reads
\* is missing.  The two statistics tools return a dict whose values
\* are wrapped in len, int or float; the others return the records of a
\* frame.  The two that hand out cells of the file as they are may return
\* a record holding a bytes object, the cell of a binary column.
StatsDict == PyDict(<<"total_papers", "120">>)

CollaborationDict == PyDict(<<"total_authors", "45">>)

Rows == [ty |-> "list", v |-> <<"{year:2020,value:7}">>]

RowsWithBytes == [ty |-> "list", v |-> <<"{paperid:b'W1',year:2020}">>]

\* tools.py:13-30 with 40, 58-59, 85-86, 107, 125, 144: the files the
\* loaders called by a tool read.
FilesRead(name) ==
    CASE name = "query_top_authors" ->
             {"umd_paper_author_affiliation.parquet", "umd_authors.parquet"}
      [] name = "query_citation_stats" -> {"umd_cs_papers.parquet", "umd_cs_paperrefs.parquet"}
      [] name = "query_collaboration_stats" -> {"umd_paper_author_affiliation.parquet"}
      [] OTHER -> {"umd_cs_papers.parquet"}

\* The FileNotFoundError of pd.read_parquet(DATA_DIR / file), tools.py:10.
MissingFile(file) ==
    Raised("FileNotFoundError",
           <<"[Errno 2] No such file or directory: '../sciscinet_data/", file, "'">>)

ReturnValue(name) ==
    CASE name = "query_citation_stats" -> StatsDict
      [] name = "query_collaboration_stats" -> CollaborationDict
      [] OTHER -> Rows

BodyOutcomes(name) ==
    {Returned(ReturnValue(name))} \cup {MissingFile(file) : file \in FilesRead(name)}
    \cup (IF name \in {"query_top_authors", "query_papers_with_filters"}
          THEN {Returned(RowsWithBytes)} ELSE {})

\* The body outcome recorded for a call whose body does not run.
NoBody == Returned(None)

AllBodyOutcomes == UNION {BodyOutcomes(name) : name \in TOOLS} \cup {NoBody}

NoResponse == [stop_reason |-> "", content |-> <<>>]

NoFault == [ty |-> "", v |-> <<>>]

NoResult == ChatResult(<<>>, None, <<>>)

\* ------------------------------------------------------------- state

VARIABLES
    pc,              \* INIT, AWAITING_SERVICE, TOOL_REQUESTED, EXECUTING, FINALIZED, RAISED
    user_message,    \* the argument of chat
    messages,        \* the conversation history
    tools,           \* the schemas derived at agent.py:100
    collected_data,  \* the trace of tool calls
    response,        \* the last reply of the service
    tool_uses,       \* the tool_use blocks of the last reply
    tool_results,    \* the tool_result blocks built so far in this round
    requests,        \* every request sent to the service, in order
    replies,         \* every reply received from the service, in order
    calls,           \* every call of _execute_tool: name, args, body, called
    result,          \* what chat returned
    fault,           \* what chat raised
    exec_in,         \* _execute_tool called on its own: name, args, body
    exec_out,        \* and what that call did
    blocks,          \* the segments the text of a scripted final reply is made of
    info,            \* a descriptor handed to the schema derivation on its own
    tool,            \* and the schema derived from it
    _agent,          \* the agent of the process: None until one is constructed
    environ,         \* the value of ANTHROPIC_API_KEY in the environment, or None
    constructed,     \* what a call of SciSciNetAgent(api_key) by a script did
    app_pc,          \* the /api/chat handler: IDLE, CHATTING, RESPONDED
    http_request,    \* the body of the request being handled
    http_response,   \* the response to it
    served,          \* the number of requests taken so far
    frames,          \* the locals of the invocations of chat that are not running
    running,         \* the invocation of chat the variables above belong to
    callers,         \* the threads that call get_agent: where each one is in it
    instances,       \* the number of agents constructed by get_agent so far
    installed,       \* which of them _agent refers to, 0 for none
    returned,        \* what the calls of get_agent returned, in order
    papers,          \* the rows of umd_cs_papers.parquet
    query_args,      \* query_papers_with_filters called on its own: its arguments
    query_out        \* and the records it returned

\* The process around chat, and the invocations of chat that share it.
app_vars == <<_agent, environ, constructed, app_pc, http_request, http_response, served>>

query_vars == <<papers, query_args, query_out>>

thread_vars == <<frames, running, callers, instances, installed, returned, query_vars>>

vars ==
    <<pc, user_message, messages, tools, collected_data, response, tool_uses,
      tool_results, requests, replies, calls, result, fault, exec_in, exec_out,
      blocks, info, tool, app_vars, thread_vars>>

NotCalled == [kind |-> "", value |-> None, called |-> FALSE]

NoExec == [name |-> "", args |-> <<>>, body |-> NoBody]

NoInfo == [name |-> "", description |-> "", parameters |-> <<>>]

NoTool == [name |-> "", description |-> "",
           input_schema |-> [type |-> "", properties |-> <<>>, required |-> <<>>]]

\* No thread is in get_agent and it has made no agent.
NoCallers ==
    /\ callers = <<>>
    /\ instances = 0
    /\ installed = 0
    /\ returned = <<>>

\* query_papers_with_filters is not called on its own.
NoQuery ==
    /\ papers = <<>>
    /\ query_args = NoArgs
    /\ query_out = NotQueried

\* Before chat is called.
ChatInit ==
    /\ pc = "INIT"
    /\ user_message = ""
    /\ messages = <<>>
    /\ tools = <<>>
    /\ collected_data = <<>>
    /\ response = NoResponse
    /\ tool_uses = <<>>
    /\ tool_results = <<>>
    /\ requests = <<>>
    /\ replies = <<>>
    /\ calls = <<>>
    /\ result = NoResult
    /\ fault = NoFault

\* chat is called on an agent that was constructed with a key; there is
\* no web application and no other invocation.
AgentGiven_NoQuery ==
    /\ _agent = NewAgent(ApiKey, None).value
    /\ environ = None
    /\ constructed = NotConstructed
    /\ app_pc = "IDLE"
    /\ http_request = NoRequest
    /\ http_response = NoHttpResponse
    /\ served = 0
    /\ frames = <<>>
    /\ running = 1
    /\ NoCallers

\* chat is called on a constructed agent and no tool function is called
\* on its own.
AgentGiven ==
    /\ AgentGiven_NoQuery
    /\ NoQuery

Init ==
    /\ ChatInit
    /\ exec_in = NoExec
    /\ exec_out = NotCalled
    /\ blocks = <<>>
    /\ info = NoInfo
    /\ tool = NoTool
    /\ AgentGiven

\* agent.py:99-111: the history is seeded, the schemas derived, the
\* first request sent.
ChatCall(question) ==
    /\ pc = "INIT"
    /\ user_message' = question
    /\ messages' = InitialMessages(question)
    /\ tools' = GetToolsForApi
    /\ collected_data' = <<>>
    /\ requests' = Append(requests, Request(tools', messages'))
    /\ pc' = "AWAITING_SERVICE"
    /\ UNCHANGED <<response, tool_uses, tool_results, replies, calls, result, fault,
                   exec_in, exec_out,
                   blocks, info, tool, app_vars, thread_vars>>

\* agent.py:145-176: the final answer, or the exception the extraction
\* lets escape.
Finalize(reply) ==
    LET text == TextResponse(reply.content)
        vega == ExtractVegaLite(text)
    IN IF vega.kind = "raise"
       THEN /\ pc' = "RAISED"
            /\ fault' = vega.value
            /\ UNCHANGED result
       ELSE /\ pc' = "FINALIZED"
            /\ result' = ChatResult(text, vega.value, collected_data)
            /\ UNCHANGED fault

\* messages.create returns a reply: the loop test of agent.py:114, then
\* either line 116 or lines 145-176.
ServiceReplies(reply) ==
    /\ pc = "AWAITING_SERVICE"
    /\ response' = reply
    /\ replies' = Append(replies, reply)
    /\ IF LoopContinues(reply)
       THEN /\ tool_uses' = ToolUses(reply.content)
            /\ pc' = "TOOL_REQUESTED"
            /\ UNCHANGED <<result, fault>>
       ELSE /\ Finalize(reply)
            /\ UNCHANGED tool_uses
    /\ UNCHANGED <<user_message, messages, tools, collected_data, tool_results, requests,
                   calls, exec_in, exec_out,
                   blocks, info, tool, app_vars, thread_vars>>

\* Variant: a failed round-trip is tried again while the cap allows.
ServiceFailsRetried ==
    /\ pc = "AWAITING_SERVICE"
    /\ IF Len(requests) < MaxRounds
       THEN /\ requests' = Append(requests, requests[Len(requests)])
            /\ UNCHANGED <<pc, fault>>
       ELSE /\ pc' = "RAISED"
            /\ fault' = [ty |-> "APIError", v |-> <<"Connection error.">>]
            /\ UNCHANGED requests
    /\ UNCHANGED <<user_message, messages, tools, collected_data, response, tool_uses,
                   tool_results, replies, calls, result, exec_in, exec_out,
                   blocks, info, tool, app_vars, thread_vars>>

\* messages.create raises: nothing in chat catches it.
ServiceFails ==
    /\ pc = "AWAITING_SERVICE"
    /\ pc' = "RAISED"
    /\ fault' = [ty |-> "APIError", v |-> <<"Connection error.">>]
    /\ UNCHANGED <<user_message, messages, tools, collected_data, response, tool_uses,
                   tool_results, requests, replies, calls, result, exec_in, exec_out,
                   blocks, info, tool, app_vars, thread_vars>>

\* agent.py:119-120: the result list is emptied and the loop over the
\* tool_use blocks starts.
BeginExecuting ==
    /\ pc = "TOOL_REQUESTED"
    /\ tool_results' = <<>>
    /\ pc' = "EXECUTING"
    /\ UNCHANGED <<user_message, messages, tools, collected_data, response, tool_uses,
                   requests, replies, calls, result, fault, exec_in, exec_out,
                   blocks, info, tool, app_vars, thread_vars>>

\* agent.py:120-131, one iteration: the tool runs, its record is
\* appended, its result encoded; json.dumps is outside any try.
ExecuteNext(body) ==
    /\ pc = "EXECUTING"
    /\ Len(tool_results) < Len(tool_uses)
    /\ LET tool_use == tool_uses[Len(tool_results) + 1]
           out == ExecuteTool(tool_use.name, tool_use.input, body)
       IN /\ IF BodyRuns(tool_use.name, tool_use.input)
             THEN body \in BodyOutcomes(tool_use.name) ELSE body = NoBody
          /\ calls' = Append(calls, [name |-> tool_use.name, args |-> tool_use.input,
                                     body |-> body, called |-> out.called])
          /\ IF out.kind = "raise"
             THEN /\ pc' = "RAISED"
                  /\ fault' = out.value
                  /\ UNCHANGED <<collected_data, tool_results>>
             ELSE /\ collected_data' = Append(collected_data, ToolCallRecord(tool_use, out.value))
                  /\ IF JsonSerializable(out.value)
                     THEN /\ tool_results' = ResultsAfter(tool_results, tool_use, out.value)
                          /\ UNCHANGED <<pc, fault>>
                     ELSE /\ pc' = "RAISED"
                          /\ fault' = [ty |-> "TypeError",
                                       v |-> <<"Object of type ", RejectedType(out.value),
                                               " is not JSON serializable">>]
                          /\ UNCHANGED tool_results
    /\ UNCHANGED <<user_message, messages, tools, response, tool_uses, requests, replies,
                   result, exec_in, exec_out,
                   blocks, info, tool, app_vars, thread_vars>>

\* agent.py:134-143: the reply and the tool results join the history and
\* the next request is sent.
Resume ==
    /\ pc = "EXECUTING"
    /\ Len(tool_results) = Len(tool_uses)
    /\ Len(requests) < MaxRounds
    /\ messages' = ResumeMessages(messages, response, tool_results)
    /\ requests' = Append(requests, Request(tools, messages'))
    /\ pc' = "AWAITING_SERVICE"
    /\ UNCHANGED <<user_message, tools, collected_data, response, tool_uses, tool_results,
                   replies, calls, result, fault, exec_in, exec_out,
                   blocks, info, tool, app_vars, thread_vars>>

Next ==
    \/ \E question \in Questions : ChatCall(question)
    \/ \E reply \in Replies : ServiceReplies(reply)
    \/ ServiceFails
    \/ BeginExecuting
    \/ \E body \in AllBodyOutcomes : ExecuteNext(body)
    \/ Resume

Spec == Init /\ [][Next]_vars

\* ------------------------------------------- _execute_tool on its own

ExecNames == TOOLS \cup {"query_patents", "papers-by-year", ""}

ExecArgs ==
    { <<>>, << <<"metric", "citations">> >>, << <<"year", "2020">> >>,
      << <<"metric", "papers">>, <<"normalize", "true">> >> }

ExecBodies ==
    AllBodyOutcomes \cup {Raised("KeyError", <<"h_index">>), Raised("ValueError", <<>>)}

chat_vars ==
    <<pc, user_message, messages, tools, collected_data, response, tool_uses,
      tool_results, requests, replies, calls, result, fault>>

InitExec ==
    /\ ChatInit
    /\ exec_in \in [name : ExecNames, args : ExecArgs, body : ExecBodies]
    /\ exec_out = NotCalled
    /\ blocks = <<>>
    /\ info = NoInfo
    /\ tool = NoTool
    /\ AgentGiven

\* One call of _execute_tool(name, args).
ExecCall ==
    /\ exec_out = NotCalled
    /\ exec_out' = ExecuteTool(exec_in.name, exec_in.args, exec_in.body)
    /\ UNCHANGED <<chat_vars, exec_in, blocks, info, tool, app_vars, thread_vars>>

NextExec == ExecCall

SpecExec == InitExec /\ [][NextExec]_vars

\* ------------------------------------- chat on a scripted final reply

\* A text is made of segments: prose, or a fenced block, which is the
\* fence, the word of its tag if it has one, a line break, the inner text
\* and the closing fence on a line of its own.
ProseSegment(words) == [fenced |-> FALSE, tag |-> <<>>, inner |-> words]

FencedBlock(tag, inner) == [fenced |-> TRUE, tag |-> tag, inner |-> inner]

TokensOf(segment) ==
    IF segment.fenced
    THEN <<Fence>> \o segment.tag \o <<"\n">> \o segment.inner \o <<Fence, "\n">>
    ELSE segment.inner

RECURSIVE TextOf(_)
TextOf(segments) ==
    IF segments = <<>> THEN <<>> ELSE TokensOf(Head(segments)) \o TextOf(Tail(segments))

JsonTexts ==
    {DocChartB, DocChartA, DocLayer, DocRows, DocDataOnly, DocOtherSchema, DocSchemaNumber,
     DocNumber, DocList, DocChartSchemaNumber, DocMalformed}

\* Blocks tagged json hold any of the JSON texts, blocks tagged vega-lite a
\* chart or a malformed text; blocks with another tag or none hold a chart.
Segments ==
    {FencedBlock(<<"json">>, <<doc, "\n">>) : doc \in JsonTexts}
    \cup {FencedBlock(<<"vega-lite">>, <<doc, "\n">>) : doc \in {DocChartB, DocMalformed}}
    \cup {FencedBlock(<<word>>, <<DocChartA, "\n">>) : word \in {"python", "jsonl"}}
    \cup {FencedBlock(<<>>, <<DocChartA, "\n">>), ProseSegment(<<"Papers rose.", "\n">>)}

\* The final reply whose one text block holds the text of the segments.
FinalReply(segments) ==
    [stop_reason |-> "end_turn", content |-> <<TextBlock(TextOf(segments))>>]

InitExtract ==
    /\ ChatInit
    /\ exec_in = NoExec
    /\ exec_out = NotCalled
    /\ \E k \in 0..MaxBlocks : blocks \in [1..k -> Segments]
    /\ info = NoInfo
    /\ tool = NoTool
    /\ AgentGiven

\* chat is called and the first reply of the service is the final one.
NextExtract ==
    \/ \E question \in Questions : ChatCall(question)
    \/ ServiceReplies(FinalReply(blocks))

SpecExtract == InitExtract /\ [][NextExtract]_vars

\* ------------------------------------- _get_tools_for_api on its own

TypeNames ==
    {T_int, T_str, T_bool, T_float, T_interval, T_integer, T_string, T_boolean}

\* The name of the i-th parameter of a descriptor.
ParamNames == <<"year", "min_citations", "has_patents", "limit">>

ParamChoices == [type : TypeNames, optional : BOOLEAN, has_default : BOOLEAN]

\* The parameters of a descriptor, from the choices made for each.
ParamsOf(choices) ==
    [i \in DOMAIN choices |-> Param(ParamNames[i], choices[i].type, "a parameter",
                                    choices[i].optional, choices[i].has_default)]

Descriptor(parameters) ==
    [name |-> "query_papers_with_filters", description |-> "filter papers",
     parameters |-> parameters]

InitSchema ==
    /\ ChatInit
    /\ exec_in = NoExec
    /\ exec_out = NotCalled
    /\ blocks = <<>>
    /\ \E k \in 0..MaxParams : \E choices \in [1..k -> ParamChoices] :
          info = Descriptor(ParamsOf(choices))
    /\ tool = NoTool
    /\ AgentGiven

\* agent.py:51-73, one turn of the loop over the descriptors, at the
\* first request or at a later one.
DeriveSchema ==
    /\ tool' = ToolSchema(info)
    /\ info' = DescriptorAfter(info)
    /\ UNCHANGED <<chat_vars, exec_in, exec_out, blocks, app_vars, thread_vars>>

NextSchema == DeriveSchema

SpecSchema == InitSchema /\ [][NextSchema]_vars

\* ------------------------------------------- the /api/chat endpoint

ApiKeys == {None, Str(<<>>), ApiKey}

\* The bodies posted to /api/chat.
Bodies ==
    {NotJson, JsonNull, JsonObject(Missing), JsonObject(None), JsonObject(Str(<<>>))}
        \cup {JsonObject(Str(<<question>>)) : question \in Questions}

\* What the service replies to the requests of the endpoint's agent.
AppReplies ==
    { [stop_reason |-> "end_turn", content |-> <<TxtPlain>>],
      [stop_reason |-> "end_turn", content |-> <<TxtNumber>>],
      [stop_reason |-> "tool_use", content |-> <<UseStats>>] }

\* The process starts: app.py:23, no agent yet; the environment holds a
\* key, an empty one or none.
InitApp ==
    /\ ChatInit
    /\ exec_in = NoExec
    /\ exec_out = NotCalled
    /\ blocks = <<>>
    /\ info = NoInfo
    /\ tool = NoTool
    /\ _agent = None
    /\ environ \in ApiKeys
    /\ constructed = NotConstructed
    /\ app_pc = "IDLE"
    /\ http_request = NoRequest
    /\ http_response = NoHttpResponse
    /\ served = 0
    /\ frames = <<>>
    /\ running = 1
    /\ NoCallers
    /\ NoQuery

\* app.py:69-77: a request arrives and the handler runs up to its
\* response or to the call of agent.chat, whose locals are new.
Handle(body) ==
    /\ app_pc \in {"IDLE", "RESPONDED"}
    /\ served < MaxRequests
    /\ served' = served + 1
    /\ http_request' = body
    /\ LET before == BeforeChat(body, _agent, environ)
       IN /\ _agent' = before.agent
          /\ http_response' = before.response
          /\ app_pc' = IF before.chat THEN "CHATTING" ELSE "RESPONDED"
    /\ pc' = "INIT"
    /\ user_message' = ""
    /\ messages' = <<>>
    /\ tools' = <<>>
    /\ collected_data' = <<>>
    /\ response' = NoResponse
    /\ tool_uses' = <<>>
    /\ tool_results' = <<>>
    /\ requests' = <<>>
    /\ replies' = <<>>
    /\ calls' = <<>>
    /\ result' = NoResult
    /\ fault' = NoFault
    /\ UNCHANGED <<environ, constructed, exec_in, exec_out, blocks, info, tool, thread_vars>>

\* app.py:77, agent.chat(message).
HandlerCallsChat ==
    /\ app_pc = "CHATTING"
    /\ ChatCall(http_request.message.v[1])

\* app.py:78-84: chat has returned or raised and the handler answers.
Respond ==
    /\ app_pc = "CHATTING"
    /\ pc \in {"FINALIZED", "RAISED"}
    /\ http_response' = IF pc = "FINALIZED" THEN HttpResponse(200, result)
                                            ELSE ErrorResponse(fault)
    /\ app_pc' = "RESPONDED"
    /\ UNCHANGED <<chat_vars, exec_in, exec_out, blocks, info, tool, _agent, environ,
                   constructed, http_request, served, thread_vars>>

\* agent.py:214, a script constructs an agent of its own.
Construct(api_key) ==
    /\ constructed = NotConstructed
    /\ constructed' = [api_key |-> api_key, kind |-> NewAgent(api_key, environ).kind,
                       value |-> NewAgent(api_key, environ).value]
    /\ UNCHANGED <<chat_vars, exec_in, exec_out, blocks, info, tool, _agent, environ,
                   app_pc, http_request, http_response, served, thread_vars>>

NextApp ==
    \/ \E body \in Bodies : Handle(body)
    \/ HandlerCallsChat
    \/ \E reply \in AppReplies : ServiceReplies(reply)
    \/ ServiceFails
    \/ BeginExecuting
    \/ \E body \in AllBodyOutcomes : ExecuteNext(body)
    \/ Resume
    \/ Respond
    \/ \E api_key \in ApiKeys : Construct(api_key)

SpecApp == InitApp /\ [][NextApp]_vars

\* ------------------------------- two invocations of chat on one agent

Invocations == {1, 2}

\* What each invocation is asked and what the service replies to it.
QuestionOf ==
    <<"How many papers were published in 2020?", "Show the citation trend.">>

RepliesOf ==
    << { [stop_reason |-> "tool_use", content |-> <<UseStats>>],
         [stop_reason |-> "end_turn", content |-> <<TxtPlain>>] },
       { [stop_reason |-> "tool_use", content |-> <<UseTrend>>],
         [stop_reason |-> "end_turn", content |-> <<TxtChart>>] } >>

\* The locals of the invocation that is running, with what it has sent,
\* received and called.
Locals ==
    [pc |-> pc, user_message |-> user_message, messages |-> messages, tools |-> tools,
     collected_data |-> collected_data, response |-> response, tool_uses |-> tool_uses,
     tool_results |-> tool_results, requests |-> requests, replies |-> replies,
     calls |-> calls, result |-> result, fault |-> fault]

\* The locals of an invocation that has not begun.
IdleFrame ==
    [pc |-> "INIT", user_message |-> "", messages |-> <<>>, tools |-> <<>>,
     collected_data |-> <<>>, response |-> NoResponse, tool_uses |-> <<>>,
     tool_results |-> <<>>, requests |-> <<>>, replies |-> <<>>,
     calls |-> <<>>, result |-> NoResult, fault |-> NoFault]

\* Variant: the trace is kept on the agent, so that an invocation goes on
\* with the trace the other one left.
RestoreSharedTrace(saved, live) == [saved EXCEPT !.collected_data = live.collected_data]

\* agent.py:99-102: messages, tools, collected_data and response are local
\* names of chat, so an invocation that runs again finds what it left,
\* whatever the invocation that ran meanwhile (live) did.
Restore(saved, live) == saved

\* Both invocations are about to start on the same agent.
InitTwo ==
    /\ ChatInit
    /\ exec_in = NoExec
    /\ exec_out = NotCalled
    /\ blocks = <<>>
    /\ info = NoInfo
    /\ tool = NoTool
    /\ _agent = NewAgent(ApiKey, None).value
    /\ environ = None
    /\ constructed = NotConstructed
    /\ app_pc = "IDLE"
    /\ http_request = NoRequest
    /\ http_response = NoHttpResponse
    /\ served = 0
    /\ frames = [id \in Invocations |-> IdleFrame]
    /\ running = 1
    /\ NoCallers
    /\ NoQuery

\* The running invocation is suspended, or is over, and the other one runs.
Switch(other) ==
    /\ other \in Invocations \ {running}
    /\ frames' = [frames EXCEPT ![running] = Locals, ![other] = IdleFrame]
    /\ running' = other
    /\ LET frame == Restore(frames[other], Locals)
       IN /\ pc' = frame.pc
          /\ user_message' = frame.user_message
          /\ messages' = frame.messages
          /\ tools' = frame.tools
          /\ collected_data' = frame.collected_data
          /\ response' = frame.response
          /\ tool_uses' = frame.tool_uses
          /\ tool_results' = frame.tool_results
          /\ requests' = frame.requests
          /\ replies' = frame.replies
          /\ calls' = frame.calls
          /\ result' = frame.result
          /\ fault' = frame.fault
    /\ UNCHANGED <<exec_in, exec_out, blocks, info, tool, app_vars, callers, instances,
                   installed, returned, query_vars>>

NextTwo ==
    \/ ChatCall(QuestionOf[running])
    \/ \E reply \in RepliesOf[running] : ServiceReplies(reply)
    \/ ServiceFails
    \/ BeginExecuting
    \/ \E body \in AllBodyOutcomes : ExecuteNext(body)
    \/ Resume
    \/ \E other \in Invocations : Switch(other)

SpecTwo == InitTwo /\ [][NextTwo]_vars

\* ------------------------------- get_agent called by concurrent requests

\* The threads of the server that handle requests.
Threads == {1, 2, 3}

\* A thread outside get_agent.
Outside == [at |-> "outside", api_key |-> None, made |-> 0]

\* The server starts with no agent; the environment holds a key, an empty
\* one or none.
InitSingleton ==
    /\ ChatInit
    /\ exec_in = NoExec
    /\ exec_out = NotCalled
    /\ blocks = <<>>
    /\ info = NoInfo
    /\ tool = NoTool
    /\ _agent = None
    /\ environ \in ApiKeys
    /\ constructed = NotConstructed
    /\ app_pc = "IDLE"
    /\ http_request = NoRequest
    /\ http_response = NoHttpResponse
    /\ served = 0
    /\ frames = <<>>
    /\ running = 1
    /\ callers = [thread \in Threads |-> Outside]
    /\ instances = 0
    /\ installed = 0
    /\ returned = <<>>
    /\ NoQuery

\* What is left alone by a step of get_agent.
get_agent_frame ==
    <<chat_vars, exec_in, exec_out, blocks, info, tool, environ, constructed, app_pc,
      http_request, http_response, frames, running, query_vars>>

\* app.py:76 and 28: a handler calls get_agent, which tests the global.
TestGlobal(thread) ==
    /\ callers[thread].at = "outside"
    /\ served < MaxRequests
    /\ served' = served + 1
    /\ callers' = [callers EXCEPT ![thread].at =
                      IF _agent = None THEN "line 29" ELSE "line 33"]
    /\ UNCHANGED <<get_agent_frame, _agent, instances, installed, returned>>

\* app.py:29-31: the key is read, and its absence raised.
ReadKey(thread) ==
    /\ callers[thread].at = "line 29"
    /\ IF ~Truthy(environ)
       THEN /\ callers' = [callers EXCEPT ![thread] = Outside]
            /\ returned' = Append(returned, [thread |-> thread, kind |-> "raise", instance |-> 0])
       ELSE /\ callers' = [callers EXCEPT ![thread] = [at |-> "line 32", api_key |-> environ, made |-> 0]]
            /\ UNCHANGED returned
    /\ UNCHANGED <<get_agent_frame, _agent, served, instances, installed>>

\* app.py:32, the right-hand side: the constructor runs (agent.py:15-20)
\* and the thread holds the agent it made; the global is not yet set.
CallConstructor(thread) ==
    /\ callers[thread].at = "line 32"
    /\ LET made == NewAgent(callers[thread].api_key, environ)
       IN IF made.kind = "raise"
          THEN /\ callers' = [callers EXCEPT ![thread] = Outside]
               /\ returned' = Append(returned, [thread |-> thread, kind |-> "raise", instance |-> 0])
               /\ UNCHANGED instances
          ELSE /\ callers' = [callers EXCEPT ![thread].at = "line 32, store",
                                             ![thread].made = instances + 1]
               /\ instances' = instances + 1
               /\ UNCHANGED returned
    /\ UNCHANGED <<get_agent_frame, _agent, served, installed>>

\* app.py:32, the store: the global is set to the agent the thread made,
\* whatever it held.
Assign(thread) ==
    /\ callers[thread].at = "line 32, store"
    /\ callers' = [callers EXCEPT ![thread].at = "line 33"]
    /\ _agent' = NewAgent(callers[thread].api_key, environ).value
    /\ installed' = callers[thread].made
    /\ UNCHANGED <<get_agent_frame, served, instances, returned>>

\* app.py:33: the global is returned.
ReturnGlobal(thread) ==
    /\ callers[thread].at = "line 33"
    /\ callers' = [callers EXCEPT ![thread] = Outside]
    /\ returned' = Append(returned, [thread |-> thread, kind |-> "return", instance |-> installed])
    /\ UNCHANGED <<get_agent_frame, _agent, served, instances, installed>>

NextSingleton ==
    \E thread \in Threads :
        \/ TestGlobal(thread)
        \/ ReadKey(thread)
        \/ CallConstructor(thread)
        \/ Assign(thread)
        \/ ReturnGlobal(thread)

SpecSingleton == InitSingleton /\ [][NextSingleton]_vars

\* ------------------------------- query_papers_with_filters on its own

\* The dataset file holds up to MaxPapers rows; the call gives or leaves
\* out each filter and asks for some number of records.
InitQuery ==
    /\ ChatInit
    /\ exec_in = NoExec
    /\ exec_out = NotCalled
    /\ blocks = <<>>
    /\ info = NoInfo
    /\ tool = NoTool
    /\ AgentGiven_NoQuery
    /\ \E n \in 0..MaxPapers :
         \E row \in [1..n -> [year : {2020, 2021}, cited_by_count : {1, 5},
                               patent_count : {0, 2}]] :
            papers = [i \in 1..n |-> Paper(i, row[i].year, row[i].cited_by_count,
                                            row[i].patent_count)]
    /\ \E year \in {None, PyInt(2020), PyInt(2021)},
          min_citations \in {None, PyInt(0), PyInt(5)},
          has_patents \in {None, PyBool(TRUE), PyBool(FALSE)},
          limit \in 0..MaxPapers :
            query_args = [year |-> year, min_citations |-> min_citations,
                          has_patents |-> has_patents, limit |-> limit]
    /\ query_out = NotQueried

\* One call of query_papers_with_filters(year, min_citations, has_patents,
\* limit).
QueryCall ==
    /\ ~query_out.called
    /\ \E records \in QueryPapersWithFilters(papers, query_args.year,
                                               query_args.min_citations,
                                               query_args.has_patents, query_args.limit) :
          query_out' = [called |-> TRUE, records |-> records]
    /\ UNCHANGED <<chat_vars, exec_in, exec_out, blocks, info, tool, app_vars, frames,
                   running, callers, instances, installed, returned, papers, query_args>>

NextQuery == QueryCall

SpecQuery == InitQuery /\ [][NextQuery]_vars

\* ------------------------------------------------------------ claims

IsPrefix(s, t) == Len(s) <= Len(t) /\ SubSeq(t, 1, Len(s)) = s

Last(s) == s[Len(s)]

\* Whether a result is an error dict of _execute_tool.
IsErrorResult(value) == value.ty = "dict" /\ value.v # <<>> /\ value.v[1] = "error"

\* The tool-invocation parts of a reply content, in order.
ToolParts(content) == SelectSeq(content, LAMBDA block : block.type = "tool_use")

\* The tool-invocation parts of the first k replies, in order.
RECURSIVE PartsUpTo(_)
PartsUpTo(k) == IF k = 0 THEN <<>> ELSE PartsUpTo(k - 1) \o ToolParts(replies[k].content)

\* What the invocation logged as calls[i] produced.
ResultOfCall(i) == ExecuteTool(calls[i].name, calls[i].args, calls[i].body).value

IsToolResultMessage(message) ==
    /\ message.role = "user"
    /\ \A i \in 1..Len(message.content) : message.content[i].type = "tool_result"

\* C1: when a request after the first is sent, every tool-invocation part
\* of the tool-use reply before it (n >= 1 of them) has been executed, in
\* order, n records have joined the trace, and the history has grown by the
\* reply and exactly one user message that carries the n tool results.
C1_AllToolsBeforeNextRequest ==
    (pc = "AWAITING_SERVICE" /\ Len(requests) >= 2) =>
        LET k == Len(requests)
            parts == ToolParts(replies[k - 1].content)
            n == Len(parts)
            base == Len(PartsUpTo(k - 2))
            sent == requests[k].messages
        IN (replies[k - 1].stop_reason = "tool_use" /\ n >= 1) =>
            /\ Len(calls) = base + n
            /\ \A i \in 1..n : /\ calls[base + i].name = parts[i].name
                               /\ calls[base + i].args = parts[i].input
            /\ Len(collected_data) = base + n
            /\ Len(sent) = Len(requests[k - 1].messages) + 2
            /\ sent[Len(sent) - 1].role = "assistant"
            /\ IsToolResultMessage(Last(sent))
            /\ Len(Last(sent).content) = n

\* A second request is out after a reply that asked for two tools.
C1_Witness ==
    /\ pc = "AWAITING_SERVICE"
    /\ Len(requests) >= 2
    /\ Len(ToolParts(replies[Len(requests) - 1].content)) = 2

\* C2: in every request after the first, the tool results of the last user
\* message answer the tool-invocation parts of the reply before it one for
\* one: the same call ids in the same order, and the content under id c is
\* the encoded result of executing the name and arguments requested under c.
C2_ResultsTaggedByCallId ==
    \A k \in 2..Len(requests) :
        LET parts == ToolParts(replies[k - 1].content)
            base == Len(PartsUpTo(k - 2))
            answer == Last(requests[k].messages).content
        IN /\ Len(answer) = Len(parts)
           /\ \A i \in 1..Len(parts) :
                /\ answer[i].tool_use_id = parts[i].id
                /\ calls[base + i].name = parts[i].name
                /\ calls[base + i].args = parts[i].input
                /\ answer[i].content = JsonDumps(ResultOfCall(base + i))

\* A request carries the results of two invocations with different call ids
\* and different results.
C2_Witness ==
    \E k \in 2..Len(requests) :
        LET answer == Last(requests[k].messages).content
        IN /\ Len(answer) = 2
           /\ answer[1].tool_use_id # answer[2].tool_use_id
           /\ answer[1].content # answer[2].content

\* C3, the state part: the history of the latest request is the current
\* history, and the history of each request is the history of the request
\* before it followed by the assistant message holding the reply between
\* them, unaltered, and one user message of tool results.
C3_HistoryOfRequests ==
    /\ requests # <<>> => Last(requests).messages = messages
    /\ \A k \in 1..(Len(requests) - 1) :
        LET before == requests[k].messages
            after == requests[k + 1].messages
        IN /\ Len(after) = Len(before) + 2
           /\ SubSeq(after, 1, Len(before)) = before
           /\ after[Len(before) + 1] = [role |-> "assistant", content |-> replies[k].content]
           /\ IsToolResultMessage(after[Len(before) + 2])

\* C3: every request carries the whole history, the history of round k+1
\* is that of round k plus the reply and the tool-result message, and no
\* step modifies or removes a message the history already holds.
C3_HistoryAppendOnly ==
    /\ []C3_HistoryOfRequests
    /\ [][IsPrefix(messages, messages')]_vars

\* Three requests have been sent.
C3_Witness == Len(requests) = 3 /\ Len(requests[3].messages) = 5

\* C4, at return: the trace holds one record per tool-invocation part of
\* every tool-use reply, in order, each with the requested name and
\* arguments and the result or error-result of that invocation.
C4_TraceAtReturn ==
    pc = "FINALIZED" =>
        LET parts == PartsUpTo(Len(replies) - 1)
        IN /\ Len(result.data) = Len(parts)
           /\ Len(calls) = Len(parts)
           /\ \A i \in 1..Len(parts) :
                /\ result.data[i].tool = parts[i].name
                /\ result.data[i].args = parts[i].input
                /\ calls[i].name = parts[i].name
                /\ calls[i].args = parts[i].input
                /\ result.data[i].result = ResultOfCall(i)

\* C4: the trace only grows during a request, and at return it is the
\* complete record of the invocations requested.
C4_TraceComplete ==
    /\ []C4_TraceAtReturn
    /\ [][IsPrefix(collected_data, collected_data')]_vars

\* chat has returned a trace with a successful and a failed invocation.
C4_Witness ==
    /\ pc = "FINALIZED"
    /\ \E i, j \in 1..Len(result.data) :
        /\ result.data[i].result = StatsDict
        /\ result.data[j].result.v[1] = "error"

\* C5, as claimed: chat never raises while it executes the tools of a
\* tool-use reply, whatever they return.
C5_NoRaiseFromTools ==
    ~(pc = "RAISED" /\ Len(requests) = Len(replies) /\ response.stop_reason = "tool_use")

\* C6: _execute_tool with a name that is no key of TOOLS returns (never
\* raises) an error dict naming the unknown tool and calls no tool function.
C6_UnknownToolIsErrorResult ==
    (exec_out # NotCalled /\ exec_in.name \notin TOOLS) =>
        /\ exec_out.kind = "return"
        /\ exec_out.value = [ty |-> "dict", v |-> <<"error", "Unknown tool: ", exec_in.name>>]
        /\ ~exec_out.called

\* _execute_tool was called with an unknown name and arguments.
C6_Witness ==
    /\ exec_out # NotCalled
    /\ exec_in.name = "query_patents"
    /\ exec_in.args # <<>>

\* C7: when the function registered for the name raises, for arguments it
\* does not accept or in its body, _execute_tool returns an error dict of
\* the shape used for an unknown tool whose message is the message of the
\* fault.
C7_FaultIsErrorResult ==
    (exec_out # NotCalled /\ exec_in.name \in TOOLS
        /\ CallTool(exec_in.name, exec_in.args, exec_in.body).kind = "raise") =>
        /\ exec_out.kind = "return"
        /\ exec_out.value.ty = "dict"
        /\ exec_out.value.v =
             <<"error">> \o CallTool(exec_in.name, exec_in.args, exec_in.body).value.v

\* The body of a registered tool raised KeyError and the call has returned.
C7_Witness ==
    /\ exec_out # NotCalled
    /\ exec_in.name = "query_top_authors"
    /\ exec_in.args = << <<"metric", "citations">> >>
    /\ exec_in.body = Raised("KeyError", <<"h_index">>)

\* C8, as claimed: chat returns to its caller upon the first reply whose
\* stop condition is not tool-use, and only then.
C8_ReturnsUponFinalReply ==
    /\ (replies # <<>> /\ Last(replies).stop_reason # "tool_use") => pc = "FINALIZED"
    /\ pc = "FINALIZED" => (replies # <<>> /\ Last(replies).stop_reason # "tool_use")

\* C9, as claimed: once the service has replied tool-use n times and then
\* final, chat has made exactly n+1 round-trips and returned normally.
C9_ReturnsAfterNPlusOneRounds ==
    (replies # <<>> /\ Last(replies).stop_reason # "tool_use") =>
        /\ \A k \in 1..(Len(replies) - 1) : replies[k].stop_reason = "tool_use"
        /\ Len(requests) = Len(replies)
        /\ pc = "FINALIZED"
        /\ fault = NoFault

\* The text parts of the first i blocks of a content, one after another.
RECURSIVE TextOfParts(_, _)
TextOfParts(content, i) ==
    IF i = 0 THEN <<>>
    ELSE TextOfParts(content, i - 1)
         \o (IF content[i].type = "text" THEN content[i].text ELSE <<>>)

\* C10: the text chat returns is the text parts of the final reply, in
\* order, with nothing between them and nothing from earlier replies.
C10_TextIsFinalReplyText ==
    pc = "FINALIZED" =>
        result.text = TextOfParts(Last(replies).content, Len(Last(replies).content))

\* chat has returned the text of a final reply of two text parts, after a
\* tool-use reply that held a text part too.
C10_Witness ==
    /\ pc = "FINALIZED"
    /\ Len(replies) >= 2
    /\ \E i \in 1..Len(replies[1].content) : replies[1].content[i].type = "text"
    /\ Len(Last(replies).content) = 2
    /\ \A i \in 1..2 : Last(replies).content[i].type = "text"

\* C11: the history of the first request chat sends holds exactly one
\* message, a user message whose content is the question chat was called
\* with, unmodified.
C11_FirstRequestIsQuestion ==
    requests # <<>> =>
        /\ Len(requests[1].messages) = 1
        /\ requests[1].messages[1] = [role |-> "user", content |-> user_message]

\* A later request, with a longer history, has followed the first.
C11_Witness ==
    /\ Len(requests) >= 2
    /\ user_message \in Questions
    /\ Len(requests[2].messages) = 3

\* C12: every request of a call carries the same system prompt and the
\* tool schemas derived at the start of the call, and no message of its
\* history is the system prompt: the first is the question, every later one
\* is the content of a reply under the assistant role or a user message of
\* tool results.
C12_SamePromptAndTools ==
    /\ requests # <<>> => requests[1].tools = GetToolsForApi
    /\ \A k \in 1..Len(requests) :
        /\ requests[k].system = SystemPrompt
        /\ requests[k].tools = tools
        /\ requests[k].tools = requests[1].tools
        /\ requests[k].messages[1].content = user_message
        /\ user_message # SystemPrompt
        /\ \A i \in 1..Len(requests[k].messages) :
             /\ requests[k].messages[i].role \in {"user", "assistant"}
             /\ i > 1 => \/ /\ i % 2 = 0
                            /\ requests[k].messages[i] =
                                 [role |-> "assistant", content |-> replies[i \div 2].content]
                         \/ /\ i % 2 = 1
                            /\ IsToolResultMessage(requests[k].messages[i])

\* Three requests have been sent in one call, the last with five messages.
C12_Witness ==
    /\ Len(requests) = 3
    /\ Len(requests[3].messages) = 5
    /\ requests[3].tools # <<>>

\* What json.loads makes of a candidate.
ParsedOf(candidate) == JsonLoads(Strip(candidate))

\* Clause A: a key/value document whose $schema field is a text containing vega.
ClauseA(doc) ==
    /\ doc.ty = "dict"
    /\ "$schema" \in doc.has
    /\ doc.schema.ty = "str"
    /\ "vega" \in doc.schema.has

\* Clause B: a key/value document with a data field and a mark or layer field.
ClauseB(doc) ==
    /\ doc.ty = "dict"
    /\ "data" \in doc.has
    /\ ("mark" \in doc.has \/ "layer" \in doc.has)

\* The positions of the candidates that parse and satisfy clause A or B.
AcceptedAt(candidates) ==
    {i \in 1..Len(candidates) :
        /\ ParsedOf(candidates[i]).kind = "return"
        /\ (ClauseA(ParsedOf(candidates[i]).value) \/ ClauseB(ParsedOf(candidates[i]).value))}

Least(S) == CHOOSE i \in S : \A j \in S : i <= j

\* C13, as claimed: the visualization chat returns is the first candidate
\* of the final text that parses and satisfies clause A or B, none if there
\* is no such candidate; a final text without a fenced block makes chat
\* return none without raising.
C13_FirstAcceptedCandidate ==
    /\ pc = "FINALIZED" =>
         LET candidates == FindAll(result.text)
             accepted == AcceptedAt(candidates)
         IN IF accepted = {} THEN result.vega_lite = None
            ELSE result.vega_lite = ParsedOf(candidates[Least(accepted)]).value
    /\ (replies # <<>> /\ \A i \in 1..Len(blocks) : ~blocks[i].fenced) =>
         (pc = "FINALIZED" /\ result.vega_lite = None)

\* C14, as claimed: when every candidate before the j-th fails to parse and
\* the j-th parses to a document satisfying clause B, chat returns the j-th:
\* the candidates json.loads rejects do not end the scan.
C14_MalformedCandidatesSkipped ==
    replies # <<>> =>
        LET candidates == FindAll(TextOf(blocks))
        IN \A j \in 1..Len(candidates) :
            ( /\ \A i \in 1..(j - 1) : ParsedOf(candidates[i]).kind = "raise"
              /\ ParsedOf(candidates[j]).kind = "return"
              /\ ClauseB(ParsedOf(candidates[j]).value) )
            => /\ pc = "FINALIZED"
               /\ result.vega_lite = ParsedOf(candidates[j]).value

\* C15, as claimed: whatever the final text holds, the extraction does not
\* raise and chat returns the text and the trace.
C15_ExtractionNeverRaises ==
    replies # <<>> =>
        /\ pc = "FINALIZED"
        /\ fault = NoFault
        /\ result.text = TextOf(blocks)
        /\ result.data = collected_data

\* C16, as claimed: a visualization chat returns satisfies clause A or B,
\* and the only candidate of a text, once parsed, is returned exactly if it
\* satisfies clause A or B.
C16_AcceptedIffClauseAOrB ==
    pc = "FINALIZED" =>
        /\ result.vega_lite # None =>
             (ClauseA(result.vega_lite) \/ ClauseB(result.vega_lite))
        /\ LET candidates == FindAll(result.text)
           IN (Len(candidates) = 1 /\ ParsedOf(candidates[1]).kind = "return") =>
                (result.vega_lite = ParsedOf(candidates[1]).value
                    <=> AcceptedAt(candidates) = {1})

\* A fenced block whose tag is one of the two labels.
HasLabel(segment) == segment.fenced /\ \E label \in Labels : segment.tag = <<label>>

\* A fenced block whose tag begins with one of the two labels.
HasLabelPrefix(segment) ==
    /\ segment.fenced
    /\ segment.tag # <<>>
    /\ segment.tag[1] \in {"vega-lite", "json", "jsonl"}

\* The inner texts of the blocks tagged with a label, in order.
RECURSIVE InnerTexts(_)
InnerTexts(segments) ==
    IF segments = <<>> THEN <<>>
    ELSE (IF HasLabel(Head(segments)) THEN <<Head(segments).inner>> ELSE <<>>)
         \o InnerTexts(Tail(segments))

\* The same for the blocks whose tag begins with a label: the inner text,
\* after the rest of the tag and the line break when the tag is longer than
\* the label.
RECURSIVE TextsAfterLabel(_)
TextsAfterLabel(segments) ==
    IF segments = <<>> THEN <<>>
    ELSE (IF HasLabel(Head(segments)) THEN <<Head(segments).inner>>
          ELSE IF HasLabelPrefix(Head(segments))
               THEN <<<<"l", "\n">> \o Head(segments).inner>>
          ELSE <<>>)
         \o TextsAfterLabel(Tail(segments))

\* Whether the JSON text the value was parsed from stands in the segment.
ParsedFrom(value, segment) ==
    \E i \in 1..Len(segment.inner) : segment.inner[i] = value.src

\* C17, as claimed: the candidates are the inner texts of the blocks tagged
\* vega-lite or json, in order, and a visualization chat returns was parsed
\* from such a block.
C17_CandidatesAreLabelledBlocks ==
    replies # <<>> =>
        /\ FindAll(TextResponse(Last(replies).content)) = InnerTexts(blocks)
        /\ (pc = "FINALIZED" /\ result.vega_lite # None) =>
             \E i \in 1..Len(blocks) :
                HasLabel(blocks[i]) /\ ParsedFrom(result.vega_lite, blocks[i])

\* C17, amended: the candidates are the texts that follow, up to the next
\* fence, each opening fence directly followed by the characters vega-lite
\* or json, in order: the inner text of a block tagged with a label and,
\* for a block whose tag only begins with a label, the rest of the tag
\* followed by the inner text.  With closing fences alone on their line,
\* prose and blocks with no tag or a tag that does not begin with a label
\* give no candidate and no visualization.
C17_CandidatesFollowLabel ==
    replies # <<>> =>
        /\ FindAll(TextResponse(Last(replies).content)) = TextsAfterLabel(blocks)
        /\ (pc = "FINALIZED" /\ result.vega_lite # None) =>
             \E i \in 1..Len(blocks) :
                HasLabelPrefix(blocks[i]) /\ ParsedFrom(result.vega_lite, blocks[i])

\* chat has answered a text with a chart in a block tagged python and a
\* chart in a block tagged vega-lite.
C17_Witness ==
    /\ pc = "FINALIZED"
    /\ blocks = <<FencedBlock(<<"python">>, <<DocChartA, "\n">>),
                  FencedBlock(<<"vega-lite">>, <<DocChartB, "\n">>)>>
    /\ result.vega_lite.src = DocChartB

\* The position of a parameter name in the descriptor.
PositionOf(name) ==
    CHOOSE i \in 1..Len(info.parameters) : info.parameters[i].name = name

\* C18: the required list of the derived schema holds a parameter exactly
\* if the descriptor neither marks it optional nor gives it a default,
\* parameter by parameter, once each and in descriptor order; the property
\* map holds every parameter.
C18_RequiredExactly ==
    tool # NoTool =>
        LET parameters == info.parameters
            required == tool.input_schema.required
            properties == tool.input_schema.properties
        IN /\ \A i \in 1..Len(parameters) :
                (\E j \in 1..Len(required) : required[j] = parameters[i].name)
                    <=> (~parameters[i].optional /\ ~parameters[i].has_default)
           /\ \A j \in 1..Len(required) :
                \E i \in 1..Len(parameters) : parameters[i].name = required[j]
           /\ \A j, k \in 1..Len(required) :
                j < k => PositionOf(required[j]) < PositionOf(required[k])
           /\ Len(properties) = Len(parameters)
           /\ \A i \in 1..Len(parameters) : properties[i].name = parameters[i].name

\* A schema was derived from a descriptor whose first parameter has a
\* default and whose second has neither a default nor the optional mark.
C18_Witness ==
    /\ tool # NoTool
    /\ Len(info.parameters) = 2
    /\ info.parameters[1].has_default /\ ~info.parameters[1].optional
    /\ ~info.parameters[2].has_default /\ ~info.parameters[2].optional
    /\ tool.input_schema.required = <<"min_citations">>

\* The substitution table of the type normalization rule.
TypeTable(type) ==
    CASE type = T_int -> T_integer
      [] type = T_str -> T_string
      [] type = T_bool -> T_boolean
      [] OTHER -> type

\* C19, as claimed: the type of each property of the derived schema is the
\* type of the parameter with int, str and bool replaced by integer, string
\* and boolean and every other type name unchanged.
C19_TypeMappedByTable ==
    tool # NoTool =>
        \A i \in 1..Len(info.parameters) :
            tool.input_schema.properties[i].type = TypeTable(info.parameters[i].type)

\* C20, as claimed: a parameter whose type is already integer, string or
\* boolean keeps it in the derived schema.
C20_NormalizedTypeKept ==
    tool # NoTool =>
        \A i \in 1..Len(info.parameters) :
            info.parameters[i].type \in {T_integer, T_string, T_boolean} =>
                tool.input_schema.properties[i].type = info.parameters[i].type

\* C25, the state part: the schema derived from a descriptor has its name,
\* its description and one property per parameter, under the parameter's
\* name and with its description; the list derived from the table has one
\* schema per descriptor, in the order of the table.
C25_OneSchemaPerDescriptor ==
    /\ tool # NoTool =>
         /\ tool.name = info.name
         /\ tool.description = info.description
         /\ tool.input_schema.type = "object"
         /\ Len(tool.input_schema.properties) = Len(info.parameters)
         /\ \A i \in 1..Len(info.parameters) :
              /\ tool.input_schema.properties[i].name = info.parameters[i].name
              /\ tool.input_schema.properties[i].description = info.parameters[i].description
    /\ Len(GetToolsForApi) = Len(TOOL_DESCRIPTIONS)
    /\ \A i \in 1..Len(TOOL_DESCRIPTIONS) :
         /\ GetToolsForApi[i].name = TOOL_DESCRIPTIONS[i].name
         /\ GetToolsForApi[i].description = TOOL_DESCRIPTIONS[i].description
         /\ Len(GetToolsForApi[i].input_schema.properties) = Len(TOOL_DESCRIPTIONS[i].parameters)

\* C25: the derivation changes neither the descriptor nor the agent, and
\* deriving again gives the schema derived before.
C25_DerivationIsPure ==
    /\ []C25_OneSchemaPerDescriptor
    /\ [][/\ info' = info
          /\ _agent' = _agent
          /\ tool # NoTool => tool' = tool]_vars

\* A schema was derived from a descriptor with two parameters, one of a
\* type the derivation renames.
C25_Witness ==
    /\ tool # NoTool
    /\ Len(info.parameters) = 2
    /\ info.parameters[1].type = T_int
    /\ tool.input_schema.properties[1].type = T_integer
    /\ info.parameters[2].type = T_float

\* C21, the state part: no request is sent without a reply to the one
\* before it, and once a round-trip has failed chat has raised: the failed
\* request is the last one, the tools executed are those of the replies
\* received, and there is no result.
C21_AfterServiceFailure ==
    /\ Len(requests) <= Len(replies) + 1
    /\ fault.ty = "APIError" =>
         /\ pc = "RAISED"
         /\ result = NoResult
         /\ Len(requests) = Len(replies) + 1
         /\ Len(calls) = Len(PartsUpTo(Len(replies)))

\* C21: a failed round-trip, in the first or a later round, is raised to
\* the caller and not tried again; after it chat sends no request, executes
\* no tool and returns nothing.
C21_ServiceFailurePropagates ==
    /\ []C21_AfterServiceFailure
    /\ [][fault.ty = "APIError" =>
            (requests' = requests /\ calls' = calls /\ result' = result /\ pc' = pc)]_vars

\* The round-trip of the second request has failed, after a round of tools.
C21_Witness ==
    /\ fault.ty = "APIError"
    /\ Len(requests) = 2
    /\ Len(calls) >= 1

\* C23: the calls of _execute_tool answer the tool-invocation parts of the
\* tool-use replies one for one, in order, whatever the earlier calls
\* returned; a call runs the function of a registered tool once or, for an
\* unknown name, not at all; and when the next request is out every part
\* has had its one call.
C23_OneCallPerPart ==
    LET parts == PartsUpTo(Len(replies))
    IN /\ Len(calls) <= Len(parts)
       /\ Len(collected_data) <= Len(calls)
       /\ \A i \in 1..Len(calls) :
            /\ calls[i].name = parts[i].name
            /\ calls[i].args = parts[i].input
            /\ calls[i].called <=> calls[i].name \in TOOLS
       /\ (pc = "AWAITING_SERVICE" /\ replies # <<>>) => Len(calls) = Len(parts)

\* The next request is out after a round whose one invocation ran the
\* function and returned an error-result.
C23_Witness ==
    /\ pc = "AWAITING_SERVICE"
    /\ Len(replies) = 1
    /\ Len(calls) = 1
    /\ calls[1].called
    /\ IsErrorResult(collected_data[1].result)

\* C26: when the tool is registered, the arguments are accepted and the
\* body of the function returns, the record of the invocation holds the
\* value the body returned, unmodified.
C26_SuccessResultUnmodified ==
    /\ Len(collected_data) <= Len(calls)
    /\ \A i \in 1..Len(collected_data) :
        (BodyRuns(calls[i].name, calls[i].args) /\ calls[i].body.kind = "return") =>
            /\ collected_data[i].tool = calls[i].name
            /\ collected_data[i].result = calls[i].body.value

\* The trace holds the rows a tool returned and the record another returned.
C26_Witness ==
    \E i, j \in 1..Len(collected_data) :
        /\ collected_data[i].result = Rows
        /\ collected_data[j].result = StatsDict

\* The number of tool-invocation parts before the reply being worked on.
PartsBefore == Len(PartsUpTo(Len(replies) - 1))

\* C28, the state part: a round-trip is in progress exactly while chat
\* waits for the service, and then no tool of the last reply is pending;
\* while tools are executed, those done are the first parts of the reply,
\* in the order of the reply.
C28_OneThingAtATime ==
    /\ pc = "AWAITING_SERVICE" =>
         /\ Len(requests) = Len(replies) + 1
         /\ Len(tool_results) = Len(tool_uses)
         /\ Len(calls) = Len(PartsUpTo(Len(replies)))
    /\ pc \in {"TOOL_REQUESTED", "EXECUTING", "FINALIZED"} => Len(requests) = Len(replies)
    /\ pc = "EXECUTING" =>
         LET parts == ToolParts(Last(replies).content)
         IN /\ Len(tool_results) <= Len(parts)
            /\ Len(calls) = PartsBefore + Len(tool_results)
            /\ \A i \in 1..Len(tool_results) :
                 /\ tool_results[i].tool_use_id = parts[i].id
                 /\ calls[PartsBefore + i].name = parts[i].name
                 /\ calls[PartsBefore + i].args = parts[i].input

\* C28: within one call of chat a step is one round-trip or one tool
\* execution, never both, the tools of a reply run one after another in the
\* order of their parts, and a request is sent only when none is pending.
C28_StrictlySequential ==
    /\ []C28_OneThingAtATime
    /\ [][/\ Len(calls') <= Len(calls) + 1
          /\ Len(requests') <= Len(requests) + 1
          /\ ~(calls' # calls /\ requests' # requests)
          /\ (requests' # requests /\ requests # <<>>) =>
                Len(tool_results) = Len(tool_uses)]_vars

\* The second of two tools of a reply is about to run, the first is done.
C28_Witness ==
    /\ pc = "EXECUTING"
    /\ Len(tool_uses) = 2
    /\ Len(tool_results) = 1
    /\ tool_uses[1].name # tool_uses[2].name

\* C30: a reply whose stop reason is not tool_use ends the loop: chat has
\* returned or raised, has sent no further request, and the tools executed
\* and recorded are those of the earlier replies only, whatever tool_use
\* blocks the reply holds; what chat returns is the text of that reply.
\* Every call of a tool answers a part of a tool-use reply.
C30_ToolsOnlyOnToolUse ==
    /\ (replies # <<>> /\ Last(replies).stop_reason # "tool_use") =>
         /\ pc \in {"FINALIZED", "RAISED"}
         /\ Len(requests) = Len(replies)
         /\ Len(calls) = PartsBefore
         /\ Len(collected_data) = PartsBefore
         /\ pc = "FINALIZED" =>
              /\ result.text = TextResponse(Last(replies).content)
              /\ Len(result.data) = PartsBefore
    /\ \A k \in 1..(Len(replies) - 1) : replies[k].stop_reason = "tool_use"
    /\ Len(calls) <= Len(PartsUpTo(Len(replies)))

\* chat has returned on a reply that stopped for max_tokens and holds a
\* tool_use block, after a round in which a tool ran.
C30_Witness ==
    /\ pc = "FINALIZED"
    /\ Len(replies) = 2
    /\ Last(replies).stop_reason = "max_tokens"
    /\ ToolParts(Last(replies).content) # <<>>
    /\ Len(result.data) = 1

\* The credential is missing: the constructor got none and the
\* environment holds none.
CredentialMissing(api_key) == ~Truthy(api_key) /\ ~Truthy(environ)

\* C22, the state part: a constructor call without a credential has raised
\* the ValueError of the configuration and made no agent, and any other
\* has made an agent holding the key; get_agent makes no agent without a
\* credential, so that chat never starts and the service gets no request;
\* chat runs on a constructed agent only and never raises the
\* configuration error.
C22_FailsAtConstruction ==
    /\ constructed.kind # "" =>
         IF CredentialMissing(constructed.api_key)
         THEN /\ constructed.kind = "raise"
              /\ constructed.value = [ty |-> "ValueError", v |-> <<"ANTHROPIC_API_KEY not found">>]
         ELSE /\ constructed.kind = "return"
              /\ Truthy(constructed.value.api_key)
    /\ ~Truthy(environ) => (_agent = None /\ pc = "INIT" /\ requests = <<>>)
    /\ _agent # None => Truthy(_agent.api_key)
    /\ pc # "INIT" => _agent # None
    /\ pc = "RAISED" => fault.ty \notin ValueErrors

\* C22: without a credential the construction of SciSciNetAgent fails with
\* the configuration error, and no request is sent to the service by it or
\* before it; chat on a constructed agent never raises that error.
C22_ConfigurationErrorAtConstruction ==
    /\ []C22_FailsAtConstruction
    /\ [][/\ constructed' # constructed => requests' = requests
          /\ _agent' # _agent => requests' = <<>>]_vars

\* A script's constructor call has raised for want of a credential, and the
\* endpoint has answered a question with get_agent's error.
C22_Witness ==
    /\ constructed.kind = "raise"
    /\ app_pc = "RESPONDED"
    /\ http_request \in {JsonObject(Str(<<question>>)) : question \in Questions}
    /\ http_response = HttpResponse(500, PyDict(<<"error", "ANTHROPIC_API_KEY not set">>))

\* The request holds a non-empty 'message'.
HasMessage(body) == body.json = "object" /\ Truthy(body.message)

\* The response to the failure of get_agent.
ConfigurationResponse == HttpResponse(500, PyDict(<<"error", "ANTHROPIC_API_KEY not set">>))

\* C27: the endpoint answers the failure of get_agent for a missing
\* credential with the message of the configuration error alone, and every
\* failure raised by agent.chat with that failure's message behind the
\* prefix 'Agent error: ', so that the two responses always differ.
C27_DistinctErrorResponses ==
    app_pc = "RESPONDED" =>
        /\ (HasMessage(http_request) /\ ~Truthy(environ)) =>
              http_response = ConfigurationResponse
        /\ pc = "RAISED" =>
             /\ http_response = HttpResponse(500, PyDict(<<"error", "Agent error: ">> \o fault.v))
             /\ http_response # ConfigurationResponse
        /\ http_response = ConfigurationResponse => (pc = "INIT" /\ _agent = None)

\* The endpoint has answered a failed round-trip of agent.chat.
C27_Witness ==
    /\ app_pc = "RESPONDED"
    /\ pc = "RAISED"
    /\ fault.ty = "APIError"
    /\ http_response.status = 500
    /\ http_response.json.v[2] = "Agent error: "

\* C29, the state part: a request without a non-empty 'message' is
\* answered 400 'Message is required', chat is not called for it and the
\* service gets no request; chat is called with a non-empty message only.
C29_RejectedBeforeTheAgent ==
    /\ (app_pc = "RESPONDED" /\ ~HasMessage(http_request)) =>
         /\ http_response = HttpResponse(400, PyDict(<<"error", "Message is required">>))
         /\ pc = "INIT"
         /\ requests = <<>>
    /\ pc # "INIT" => (HasMessage(http_request) /\ user_message = http_request.message.v[1])

\* C29: a request whose 'message' is missing or empty is answered 400
\* 'Message is required' without the agent being obtained or constructed
\* and without a request to the service; agent.chat is called only with a
\* non-empty message.
C29_MissingMessageIs400 ==
    /\ []C29_RejectedBeforeTheAgent
    /\ [][(http_request' # http_request /\ ~HasMessage(http_request')) =>
             _agent' = _agent]_vars

\* The locals of an invocation, running or not.
FrameOf(id) == IF id = running THEN Locals ELSE frames[id]

\* The tool-invocation parts of the first k replies an invocation received.
RECURSIVE FrameParts(_, _)
FrameParts(frame, k) ==
    IF k = 0 THEN <<>> ELSE FrameParts(frame, k - 1) \o ToolParts(frame.replies[k].content)

\* What the i-th tool call of an invocation returned.
OwnResult(frame, i) ==
    ExecuteTool(frame.calls[i].name, frame.calls[i].args, frame.calls[i].body).value

\* The history an invocation holds after k rounds of tools, built from its
\* own question, the replies it received and the results of its own calls.
RECURSIVE OwnHistory(_, _)
OwnHistory(frame, k) ==
    IF k = 0 THEN InitialMessages(frame.user_message)
    ELSE LET parts == ToolParts(frame.replies[k].content)
             base == Len(FrameParts(frame, k - 1))
         IN OwnHistory(frame, k - 1)
              \o <<Message("assistant", frame.replies[k].content),
                   Message("user", [i \in 1..Len(parts) |->
                                      ToolResultBlock(parts[i], OwnResult(frame, base + i))])>>

\* The records of the first n tool calls of an invocation.
OwnTrace(frame, n) ==
    [i \in 1..n |-> ToolCallRecord(FrameParts(frame, Len(frame.replies))[i],
                                   OwnResult(frame, i))]

\* C24, for one invocation: it was asked its own question, every history
\* it sent holds that question, the replies it received and the results of
\* its own tool calls and nothing else, its trace holds the records of its
\* own calls, and what it returned is made of its last reply and that trace.
C24_SelfContained(id) ==
    LET frame == FrameOf(id)
        text == TextResponse(Last(frame.replies).content)
    IN frame.pc # "INIT" =>
        /\ frame.user_message = QuestionOf[id]
        /\ \A k \in 1..Len(frame.replies) : frame.replies[k] \in RepliesOf[id]
        /\ \A k \in 1..Len(frame.requests) :
              frame.requests[k].messages = OwnHistory(frame, k - 1)
        /\ Len(frame.collected_data) <= Len(frame.calls)
        /\ frame.collected_data = OwnTrace(frame, Len(frame.collected_data))
        /\ frame.pc = "FINALIZED" =>
              frame.result = ChatResult(text, ExtractVegaLite(text).value,
                                        OwnTrace(frame, Len(frame.calls)))

C24_EachSelfContained == \A id \in Invocations : C24_SelfContained(id)

\* C24: two invocations of chat on the same agent, one after the other or
\* interleaved, share no conversation state: each is self-contained, and
\* none of them changes the agent.
C24_NoSharedConversationState ==
    /\ []C24_EachSelfContained
    /\ [][_agent' = _agent]_vars

\* Both invocations are under way, each with a tool call behind it, and the
\* first has resumed after the second began.
C24_Witness ==
    /\ running = 1
    /\ pc = "FINALIZED"
    /\ Len(result.data) = 1
    /\ frames[2].pc = "AWAITING_SERVICE"
    /\ Len(frames[2].collected_data) = 1

\* The call ids of the tool-invocation parts of a message content.
CallIds(content) == {ToolParts(content)[j].id : j \in 1..Len(ToolParts(content))}

\* A history is well formed: its length is odd, the roles alternate from
\* user to user, every assistant message is followed by a user message of
\* tool results, and each such message holds at least one result that
\* answers a tool-invocation part of the assistant message before it.
WellFormed(history) ==
    /\ Len(history) % 2 = 1
    /\ \A i \in 1..Len(history) :
         history[i].role = (IF i % 2 = 1 THEN "user" ELSE "assistant")
    /\ \A i \in 2..Len(history) :
         i % 2 = 1 =>
            /\ IsToolResultMessage(history[i])
            /\ \E j \in 1..Len(history[i].content) :
                 history[i].content[j].tool_use_id \in CallIds(history[i - 1].content)

\* C31, as claimed: the history of the k-th request has length 2k - 1,
\* one question and two messages for each round of tools before it, and is
\* well formed.
C31_HistoryWellFormed ==
    \A k \in 1..Len(requests) :
        /\ Len(requests[k].messages) = 2 * k - 1
        /\ WellFormed(requests[k].messages)

\* C32, the state part, as claimed: get_agent has constructed at most one
\* agent, every call that returned gave that one, and a call that raised
\* for a missing credential left the global unset.
C32_AtMostOneAgent ==
    /\ instances <= 1
    /\ \A i \in 1..Len(returned) :
         /\ returned[i].kind = "return" => (returned[i].instance = 1 /\ installed = 1)
         /\ returned[i].kind = "raise" => (_agent = None /\ installed = 0)

\* C32, as claimed: get_agent constructs at most once in a process; once
\* an agent is installed, no call from any thread replaces it.
C32_ConstructedOnce ==
    /\ []C32_AtMostOneAgent
    /\ [][installed # 0 => (installed' = installed /\ _agent' = _agent)]_vars

\* An argument was supplied to the call.
Supplied(value) == value.ty # "NoneType"

\* C33, as claimed: every record query_papers_with_filters returned
\* satisfies every filter that was supplied: it has the given year, at
\* least the given number of citations, and patents exactly when
\* has_patents is true; and there are at most limit records.
C33_RecordsSatisfyFilters ==
    query_out.called =>
        /\ \A i \in 1..Len(query_out.records) :
             LET record == query_out.records[i]
             IN /\ Supplied(query_args.year) => record.year = query_args.year.v
                /\ Supplied(query_args.min_citations) =>
                      record.cited_by_count >= query_args.min_citations.v
                /\ Supplied(query_args.has_patents) =>
                      (record.patent_count > 0 <=> query_args.has_patents.v)
        /\ Len(query_out.records) <= query_args.limit

====
